---- MODULE Spec2Model ----
(***************************************************************************)
(* A model of hn-prospector: the thread parser (parser.py), the per-user   *)
(* classifier (filter.py, hn_client.py), the ranker (ranking.py) and the   *)
(* orchestration of a run (main.py).                                       *)
(*                                                                         *)
(* Text is a sequence of one-character strings.  An optional value (a      *)
(* Python None, a tag that find() does not find, a missing attribute) is   *)
(* the empty sequence None; a present value v is Some(v) = <<v>>.          *)
(***************************************************************************)
EXTENDS Integers, Sequences, FiniteSets, TLC

VARIABLES
    pc,                 \* position of main() / of the function under check
    comment_trs,        \* parser.py:45  the rows soup.find_all('tr', 'comtr') returns
    i,                  \* parser.py:47  index of the next row of the loop (1-based)
    comments_by_user,   \* parser.py:43  the index, a dict in insertion order
    token_exist,        \* main.py:130
    futures,            \* main.py:142   uid -> state of the submitted task
    yielded,            \* main.py:148   futures as_completed has handed out
    filtered_users,     \* main.py:134   dict uid -> ContactInfo, insertion order
    unranked_users,     \* main.py:162
    final_ranked_list,  \* main.py:176
    cl_args,            \* filter.py:41  arguments of the process_user call under check
    cl_env,             \* what the network answers that call
    cl_result,          \* filter.py:46  what the call returns
    html_content,       \* main.py:101   what get_thread_html returned
    div_children,       \* parser.py:20  the children of the div under normalization
    normalized          \* parser.py:31  what _get_comment_text returns

vars == <<pc, comment_trs, i, comments_by_user, token_exist, futures, yielded,
          filtered_users, unranked_users, final_ranked_list,
          cl_args, cl_env, cl_result, html_content, div_children, normalized>>

parseVars == <<comment_trs, i, comments_by_user>>
mainVars == <<token_exist, futures, yielded, filtered_users, unranked_users,
              final_ranked_list>>
classifyVars == <<cl_args, cl_env, cl_result>>
normVars == <<div_children, normalized>>

\* ------------------------------------------------------------------ bounds

\* Longest thread (number of comment rows) the parser is run on.
MaxRows == 3

\* ------------------------------------------------------------------ options

None == <<>>
Some(v) == <<v>>
IsSome(m) == m # <<>>
Get(m) == m[1]

\* ------------------------------------------------------------------ text

Whitespace == {" ", "\n", "\t"}

RECURSIVE lstrip(_)
lstrip(s) ==
    IF s = <<>> THEN <<>>
    ELSE IF Head(s) \in Whitespace THEN lstrip(Tail(s)) ELSE s

RECURSIVE rstrip(_)
rstrip(s) ==
    IF s = <<>> THEN <<>>
    ELSE IF s[Len(s)] \in Whitespace THEN rstrip(SubSeq(s, 1, Len(s) - 1)) ELSE s

\* str.strip()
strip(s) == rstrip(lstrip(s))

\* Tag.get_text(strip=True): every text node below the tag, stripped, the
\* empty ones dropped, joined with "".  A tag is given by its text nodes.
RECURSIVE get_text_strip(_)
get_text_strip(strings) ==
    IF strings = <<>> THEN <<>>
    ELSE strip(Head(strings)) \o get_text_strip(Tail(strings))

\* Number of whitespace-delimited tokens: len(s.split()).
RECURSIVE split_len(_)
split_len(s) ==
    IF s = <<>> THEN 0
    ELSE IF Head(s) \in Whitespace THEN split_len(Tail(s))
    ELSE IF Len(s) = 1 \/ s[2] \in Whitespace THEN 1 + split_len(Tail(s))
    ELSE split_len(Tail(s))

\* ------------------------------------------------------------------ parser.py

\* The children of a 'commtext' div: a <p> tag (with its text nodes), a bare
\* text node, or any other tag.
P(strings) == [kind |-> "p", strings |-> strings]
T(text) == [kind |-> "text", strings |-> <<text>>]
OtherTag(strings) == [kind |-> "tag", strings |-> strings]

\* comment_parts_step without the paragraph break of lines 22-23.
comment_parts_step_no_break(comment_parts, element) ==
    IF element.kind = "p"
    THEN Append(comment_parts, get_text_strip(element.strings))
    ELSE IF element.kind = "text"
    THEN (IF strip(element.strings[1]) # <<>>
          THEN Append(comment_parts, strip(element.strings[1]))
          ELSE comment_parts)
    ELSE comment_parts

\* One iteration of the loop of _get_comment_text over the children.
comment_parts_step(comment_parts, element) ==
    IF element.kind = "p"
    THEN (IF comment_parts # <<>> THEN Append(comment_parts, <<"\n", "\n">>)
          ELSE comment_parts) \o <<get_text_strip(element.strings)>>
    ELSE IF element.kind = "text"
    THEN (IF strip(element.strings[1]) # <<>>
          THEN Append(comment_parts, strip(element.strings[1]))
          ELSE comment_parts)
    ELSE comment_parts

RECURSIVE comment_parts_of(_, _)
comment_parts_of(children, comment_parts) ==
    IF children = <<>> THEN comment_parts
    ELSE comment_parts_of(Tail(children),
                          comment_parts_step(comment_parts, Head(children)))

RECURSIVE join(_)
join(parts) == IF parts = <<>> THEN <<>> ELSE Head(parts) \o join(Tail(parts))

\* _get_comment_text(comment_div).  Its except branch (return "") guards the
\* iteration over children, which raises for no child of the kinds above.
get_comment_text(comment_div) == strip(join(comment_parts_of(comment_div, <<>>)))

\* int(str(ind_tag['indent'])): surrounding whitespace stripped, an optional
\* sign, then decimal digits; anything else raises ValueError.
Digits == <<"0", "1", "2", "3", "4", "5", "6", "7", "8", "9">>
IsDigit(c) == \E k \in 1..Len(Digits) : Digits[k] = c
DigitVal(c) == (CHOOSE k \in 1..Len(Digits) : Digits[k] = c) - 1

RECURSIVE digits_val(_, _)
digits_val(s, acc) ==
    IF s = <<>> THEN acc ELSE digits_val(Tail(s), acc * 10 + DigitVal(Head(s)))

int(attr) ==
    LET s == strip(attr)
        signed == s # <<>> /\ Head(s) \in {"-", "+"}
        ds == IF signed THEN Tail(s) ELSE s
    IN IF ds = <<>> \/ \E k \in 1..Len(ds) : ~IsDigit(ds[k])
       THEN [raised |-> TRUE, val |-> 0]
       ELSE [raised |-> FALSE,
             val |-> IF signed /\ Head(s) = "-" THEN 0 - digits_val(ds, 0)
                     ELSE digits_val(ds, 0)]

\* A row of the thread (a tr.comtr): the a.hnuser tag (given by its text
\* nodes), the div.commtext (given by its children) and the indent attribute
\* of td.ind, each of them possibly missing.
Row(user, body, indent) == [user |-> user, body |-> body, indent |-> indent]

\* parent_scan with the test of line 75 weakened to "any lower indent", as the
\* comment of line 65 words it.
RECURSIVE parent_scan_lower(_, _, _)
parent_scan_lower(trs, j, current_indent) ==
    IF j < 1 THEN [raised |-> FALSE, text |-> <<>>]
    ELSE IF IsSome(trs[j].indent)
    THEN LET prev == int(Get(trs[j].indent))
         IN IF prev.raised THEN [raised |-> TRUE, text |-> <<>>]
            ELSE IF prev.val < current_indent
            THEN [raised |-> FALSE,
                  text |-> IF IsSome(trs[j].body)
                           THEN get_comment_text(Get(trs[j].body)) ELSE <<>>]
            ELSE parent_scan_lower(trs, j - 1, current_indent)
    ELSE parent_scan_lower(trs, j - 1, current_indent)

\* parent_scan without the break of line 79: the scan runs on to the start
\* and keeps the earliest match.
RECURSIVE parent_scan_no_break(_, _, _)
parent_scan_no_break(trs, j, current_indent) ==
    IF j < 1 THEN [raised |-> FALSE, text |-> <<>>]
    ELSE IF IsSome(trs[j].indent)
    THEN LET prev == int(Get(trs[j].indent))
             earlier == parent_scan_no_break(trs, j - 1, current_indent)
         IN IF prev.raised THEN [raised |-> TRUE, text |-> <<>>]
            ELSE IF prev.val = current_indent - 1 /\ earlier.text = <<>>
            THEN [raised |-> earlier.raised,
                  text |-> IF IsSome(trs[j].body)
                           THEN get_comment_text(Get(trs[j].body)) ELSE <<>>]
            ELSE earlier
    ELSE parent_scan_no_break(trs, j - 1, current_indent)

\* Lines 67-79: the backward scan from row j for the parent of a comment of
\* indent current_indent.  A row without an indent is passed over; the scan
\* stops at the first row whose indent is exactly one less.
RECURSIVE parent_scan(_, _, _)
parent_scan(trs, j, current_indent) ==
    IF j < 1 THEN [raised |-> FALSE, text |-> <<>>]
    ELSE IF IsSome(trs[j].indent)
    THEN LET prev == int(Get(trs[j].indent))
         IN IF prev.raised THEN [raised |-> TRUE, text |-> <<>>]
            ELSE IF prev.val = current_indent - 1
            THEN [raised |-> FALSE,
                  text |-> IF IsSome(trs[j].body)
                           THEN get_comment_text(Get(trs[j].body)) ELSE <<>>]
            ELSE parent_scan(trs, j - 1, current_indent)
    ELSE parent_scan(trs, j - 1, current_indent)

\* Lines 58-79: preceding_comment_text of the row at position k.
preceding_comment_text(trs, k) ==
    IF IsSome(trs[k].indent)
    THEN LET cur == int(Get(trs[k].indent))
         IN IF cur.raised THEN [raised |-> TRUE, text |-> <<>>]
            ELSE IF cur.val > 0 THEN parent_scan(trs, k - 1, cur.val)
            ELSE [raised |-> FALSE, text |-> <<>>]
    ELSE [raised |-> FALSE, text |-> <<>>]

\* comments_by_user[username].append(pair) on a defaultdict(list): the dict is
\* a sequence of entries in insertion order.
HasKey(dict, key) == \E k \in 1..Len(dict) : dict[k].uid = key
KeyPos(dict, key) == CHOOSE k \in 1..Len(dict) : dict[k].uid = key
Lookup(dict, key) == dict[KeyPos(dict, key)]

dict_append(dict, username, pair) ==
    IF HasKey(dict, username)
    THEN [dict EXCEPT ![KeyPos(dict, username)].comments = Append(@, pair)]
    ELSE Append(dict, [uid |-> username, comments |-> <<pair>>])

\* parse_row without the "if not user_comment_text: continue" of lines 55-56.
parse_row_keep_empty(trs, k, dict) ==
    LET comment_tr == trs[k] IN
    IF IsSome(comment_tr.user) /\ IsSome(comment_tr.body)
    THEN LET username == get_text_strip(Get(comment_tr.user))
             user_comment_text == get_comment_text(Get(comment_tr.body))
             parent == preceding_comment_text(trs, k)
         IN IF parent.raised THEN [raised |-> TRUE, dict |-> dict]
            ELSE [raised |-> FALSE,
                  dict |-> dict_append(dict, username,
                                       <<parent.text, user_comment_text>>)]
    ELSE [raised |-> FALSE, dict |-> dict]

\* Lines 48-83: the body of the loop for the row at position k.  The result
\* is the index after the iteration, or raised when int() raised ValueError.
parse_row(trs, k, dict) ==
    LET comment_tr == trs[k] IN
    IF IsSome(comment_tr.user) /\ IsSome(comment_tr.body)
    THEN LET username == get_text_strip(Get(comment_tr.user))
             user_comment_text == get_comment_text(Get(comment_tr.body))
         IN IF user_comment_text = <<>>
            THEN [raised |-> FALSE, dict |-> dict]
            ELSE LET parent == preceding_comment_text(trs, k)
                 IN IF parent.raised THEN [raised |-> TRUE, dict |-> dict]
                    ELSE [raised |-> FALSE,
                          dict |-> dict_append(dict, username,
                                               <<parent.text, user_comment_text>>)]
    ELSE [raised |-> FALSE, dict |-> dict]

\* ------------------------------------------------------------------ inputs of the parser

Usernames == {<<"u">>, <<"v">>}
AllUids == {get_text_strip(<<u>>) : u \in Usernames}

body_blank == <<T(<<" ">>)>>
body_a == <<T(<<"a">>)>>
body_bc == <<T(<<"b", " ">>), OtherTag(<<<<"i">>>>), P(<<<<"c">>>>)>>
Bodies == {body_blank, body_a, body_bc}

IndentAttrs == {<<"0">>, <<"1">>, <<"2">>}
BadIndent == <<"x">>

\* Comments with a user, a body and an indent; the body of some is blank.
WellFormedRows ==
    {Row(Some(<<u>>), Some(b), Some(d)) :
        u \in Usernames, b \in {body_a, body_bc}, d \in IndentAttrs}
    \cup {Row(Some(<<<<"u">>>>), Some(body_blank), Some(d)) : d \in IndentAttrs}

\* Rows with one defect: no a.hnuser, no div.commtext, no indent attribute,
\* an indent that is no number.
MalformedRows ==
    {Row(None, Some(body_a), Some(<<"0">>)),
     Row(Some(<<<<"u">>>>), None, Some(<<"0">>)),
     Row(Some(<<<<"u">>>>), Some(body_a), None)}
    \cup {Row(Some(<<<<"u">>>>), Some(b), Some(BadIndent)) : b \in {body_a, body_blank}}
    \cup {Row(None, Some(body_a), Some(BadIndent))}

Rows == WellFormedRows \cup MalformedRows

Threads == UNION {[1..n -> Rows] : n \in 0..MaxRows}

\* ------------------------------------------------------------------ parse_comments_by_user, step by step

IdleMain ==
    /\ token_exist = FALSE
    /\ futures = <<>>
    /\ yielded = {}
    /\ filtered_users = <<>>
    /\ unranked_users = <<>>
    /\ final_ranked_list = <<>>

IdleClassify ==
    /\ cl_args = <<>>
    /\ cl_env = <<>>
    /\ cl_result = None

IdleNormalize ==
    /\ div_children = <<>>
    /\ normalized = <<>>
    /\ html_content = None

\* parse_comments_by_user is called on a thread (lines 42-45).
InitParse ==
    /\ pc = "parse"
    /\ comment_trs \in Threads
    /\ i = 1
    /\ comments_by_user = <<>>
    /\ IdleMain
    /\ IdleClassify
    /\ IdleNormalize

\* One iteration of the loop at line 47; a ValueError leaves the function.
ParseRow ==
    /\ pc = "parse"
    /\ i <= Len(comment_trs)
    /\ LET r == parse_row(comment_trs, i, comments_by_user)
       IN IF r.raised
          THEN /\ pc' = "crashed"
               /\ UNCHANGED <<i, comments_by_user>>
          ELSE /\ pc' = "parse"
               /\ i' = i + 1
               /\ comments_by_user' = r.dict
    /\ UNCHANGED <<comment_trs, mainVars, classifyVars, normVars, html_content>>

\* Line 85: return dict(comments_by_user).
ParseReturn ==
    /\ pc = "parse"
    /\ i > Len(comment_trs)
    /\ pc' = "parsed"
    /\ UNCHANGED <<parseVars, mainVars, classifyVars, normVars, html_content>>

NextParse == ParseRow \/ ParseReturn

SpecParse == InitParse /\ [][NextParse]_vars

\* ------------------------------------------------------------------ filter.py: INTERESTING_PATTERNS

LowerLetters == <<"a", "b", "c", "d", "e", "f", "g", "h", "i", "j", "k", "l", "m",
                  "n", "o", "p", "q", "r", "s", "t", "u", "v", "w", "x", "y", "z">>
UpperLetters == <<"A", "B", "C", "D", "E", "F", "G", "H", "I", "J", "K", "L", "M",
                  "N", "O", "P", "Q", "R", "S", "T", "U", "V", "W", "X", "Y", "Z">>

\* re.IGNORECASE: characters are compared folded to lower case.
LowerOf(c) ==
    IF \E k \in 1..Len(UpperLetters) : UpperLetters[k] = c
    THEN LowerLetters[CHOOSE k \in 1..Len(UpperLetters) : UpperLetters[k] = c]
    ELSE c

\* \w
IsWordChar(c) ==
    \/ \E k \in 1..Len(LowerLetters) : LowerLetters[k] = LowerOf(c)
    \/ IsDigit(c)
    \/ c = "_"

\* [\w\.-]
IsAddrChar(c) == IsWordChar(c) \/ c \in {".", "-"}

\* The literal lit (in lower case) matches the text s at position p.
LitAt(s, p, lit) ==
    /\ p + Len(lit) - 1 <= Len(s)
    /\ \A k \in 1..Len(lit) : LowerOf(s[p + k - 1]) = lit[k]

\* \b between the positions p - 1 and p of s.
WordBoundary(s, p) ==
    (p - 1 >= 1 /\ IsWordChar(s[p - 1])) # (p <= Len(s) /\ IsWordChar(s[p]))

\* [\w\.-]+@[\w\.-]+\.\w+ with its "@" at position a.
EmailAt(s, a) ==
    /\ s[a] = "@"
    /\ a > 1 /\ IsAddrChar(s[a - 1])
    /\ \E d \in (a + 2)..(Len(s) - 1) :
          /\ s[d] = "."
          /\ \A k \in (a + 1)..(d - 1) : IsAddrChar(s[k])
          /\ IsWordChar(s[d + 1])

\* INTERESTING_PATTERNS.search(s) finds a match (lines 17-38).
INTERESTING_PATTERNS_search(s) ==
    \E p \in 1..Len(s) :
        \/ LitAt(s, p, <<"h", "t", "t", "p", ":", "/", "/">>)
        \/ LitAt(s, p, <<"h", "t", "t", "p", "s", ":", "/", "/">>)
        \/ EmailAt(s, p)
        \/ LitAt(s, p, <<"k", "e", "y", "b", "a", "s", "e", ".", "i", "o">>)
        \/ (LitAt(s, p, <<".", "d", "e", "v">>) /\ WordBoundary(s, p + 4))
        \/ (LitAt(s, p, <<".", "i", "o">>) /\ WordBoundary(s, p + 3))
        \/ (LitAt(s, p, <<".", "c", "o", "m">>) /\ WordBoundary(s, p + 4))
        \/ (/\ LitAt(s, p, <<"p", "u", "b", "l", "i", "c">>)
            /\ p + 6 <= Len(s) /\ s[p + 6] \in Whitespace
            /\ LitAt(s, p + 7, <<"k", "e", "y">>))
        \/ LitAt(s, p, <<"p", "g", "p">>)

\* ------------------------------------------------------------------ hn_client.py

GITHUB_URL == <<"https://github.com">>

\* get_thread_html (lines 53-62): the text of the response, None when the
\* request or raise_for_status raised.
get_thread_html(response) ==
    IF response \in {"request_exception", "http_error"} THEN None ELSE Some("html")

\* get_hn_user_info: the JSON of the response (the user's record, or null for
\* an unknown user), None when the request raised.
get_hn_user_info(hn_response) ==
    IF hn_response.kind = "request_exception" THEN None ELSE hn_response.json

\* get_github_profile_stats_api: (exists, public_repo_count) from the GraphQL
\* response; every failure is (False, 0).
get_github_profile_stats_api(graphql) ==
    IF graphql.kind = "request_exception" THEN <<FALSE, 0>>
    ELSE IF graphql.kind = "errors" THEN <<FALSE, 0>>
    ELSE IF graphql.kind = "user_null" THEN <<FALSE, 0>>
    ELSE IF graphql.kind = "unparsable" THEN <<FALSE, 0>>
    ELSE <<TRUE, IF IsSome(graphql.totalCount) THEN Get(graphql.totalCount) ELSE 0>>

\* check_github_profile_scrape: the HEAD request answered 200; False when it
\* raised.
check_github_profile_scrape(head) == IsSome(head) /\ Get(head) = 200

\* ------------------------------------------------------------------ filter.py: process_user

\* about_check with clean_about assigned for every non-empty about field.
about_check_keep_text(user_data) ==
    LET about_html == IF IsSome(user_data.about) THEN Get(user_data.about) ELSE <<>>
    IN IF about_html # <<>>
       THEN LET about_text == get_text_strip(about_html)
            IN IF INTERESTING_PATTERNS_search(about_text)
               THEN [clean_about |-> Some(about_text), status |-> Some("YES")]
               ELSE [clean_about |-> Some(about_text), status |-> None]
       ELSE [clean_about |-> None, status |-> None]

\* Lines 62-83: clean_about and status from the about field of the record.
about_check(user_data) ==
    LET about_html == IF IsSome(user_data.about) THEN Get(user_data.about) ELSE <<>>
    IN IF about_html # <<>>
       THEN LET about_text == get_text_strip(about_html)
            IN IF INTERESTING_PATTERNS_search(about_text)
               THEN [clean_about |-> Some(about_text), status |-> Some("YES")]
               ELSE [clean_about |-> None, status |-> None]
       ELSE [clean_about |-> None, status |-> None]

\* github_profile_is_valid with the repository threshold of line 93 left out.
github_profile_is_valid_no_threshold(env, tok, min_repo_count) ==
    IF tok
    THEN get_github_profile_stats_api(env.graphql)[1]
    ELSE check_github_profile_scrape(env.head)

\* Lines 85-106: github_profile_is_valid.
github_profile_is_valid(env, tok, min_repo_count) ==
    IF tok
    THEN LET stats == get_github_profile_stats_api(env.graphql)
         IN stats[1] /\ stats[2] >= min_repo_count
    ELSE check_github_profile_scrape(env.head)

\* process_user(uid, session, token_exist, min_repo_count): None or a
\* ContactInfo.  env is what the network answers through the session.
process_user(uid, env, tok, min_repo_count) ==
    LET user_data == get_hn_user_info(env.hn) IN
    IF ~IsSome(user_data) THEN None
    ELSE LET a == about_check(Get(user_data))
             valid == github_profile_is_valid(env, tok, min_repo_count)
             github_repo == IF valid THEN Some(GITHUB_URL \o <<"/">> \o uid) ELSE None
             status == IF valid /\ ~IsSome(a.status) THEN Some("GITHUB_ONLY")
                       ELSE a.status
         IN IF ~valid /\ ~IsSome(status) THEN None
            ELSE IF IsSome(status)
            THEN Some([uid |-> uid, status |-> Get(status),
                       about |-> a.clean_about, github_repo |-> github_repo])
            ELSE None

\* A call process_user(*args): Python binds the positional arguments to the
\* four parameters of line 41-46 and raises TypeError when one is missing.
process_user_params == <<"uid", "session", "token_exist", "min_repo_count">>

call_process_user(args, env) ==
    IF Len(args) # Len(process_user_params)
    THEN [raised |-> TRUE, value |-> None]
    ELSE [raised |-> FALSE, value |-> process_user(args[1], env, args[3], args[4])]

\* ------------------------------------------------------------------ inputs of process_user

\* Largest public repository count GitHub reports, and largest threshold.
MaxRepoCount == 3
MaxMinRepo == 3

\* About fields, each given by the text nodes of its HTML: "" (empty field),
\* "pgp", "a@b.c", "<b>x</b>.io", "x.iox", "hi", " ", " http://x".
AboutHtmls ==
    { <<>>,
      << <<"p", "g", "p">> >>,
      << <<"a", "@", "b", ".", "c">> >>,
      << <<"x">>, <<".", "i", "o">> >>,
      << <<"x", ".", "i", "o", "x">> >>,
      << <<"h", "i">> >>,
      << <<" ">> >>,
      << <<" ", "h", "t", "t", "p", ":", "/", "/", "x">> >> }

\* A fetched user record always has fields (id, created, karma); about is
\* optional.
UserRecords == {[about |-> a] : a \in {None} \cup {Some(h) : h \in AboutHtmls}}

HnResponses ==
    {[kind |-> "request_exception", json |-> None], [kind |-> "json", json |-> None]}
    \cup {[kind |-> "json", json |-> Some(r)] : r \in UserRecords}

GraphqlResponses ==
    {[kind |-> k, totalCount |-> None] :
        k \in {"request_exception", "errors", "user_null", "unparsable", "user"}}
    \cup {[kind |-> "user", totalCount |-> Some(n)] : n \in 0..MaxRepoCount}

HeadResponses == {None, Some(200), Some(404)}

Envs == [hn : HnResponses, graphql : GraphqlResponses, head : HeadResponses]

\* ------------------------------------------------------------------ process_user, called on its own

IdleParse ==
    /\ comment_trs = <<>>
    /\ i = 1
    /\ comments_by_user = <<>>

InitClassify ==
    /\ pc = "classify"
    /\ cl_args \in {<<u, "session", t, m>> :
                      u \in AllUids, t \in BOOLEAN, m \in 0..MaxMinRepo}
    /\ cl_env \in Envs
    /\ cl_result = None
    /\ IdleParse
    /\ IdleMain
    /\ IdleNormalize

\* filter.process_user(uid, session, token_exist, min_repo_count).
Classify ==
    /\ pc = "classify"
    /\ LET r == call_process_user(cl_args, cl_env)
       IN /\ pc' = IF r.raised THEN "crashed" ELSE "classified"
          /\ cl_result' = r.value
    /\ UNCHANGED <<cl_args, cl_env, parseVars, mainVars, normVars, html_content>>

NextClassify == Classify

SpecClassify == InitClassify /\ [][NextClassify]_vars

\* ------------------------------------------------------------------ claims about process_user

\* What the claims call the about text, its match, and a valid profile.
Fetched == IsSome(get_hn_user_info(cl_env.hn))
AboutText ==
    LET r == Get(get_hn_user_info(cl_env.hn))
    IN IF IsSome(r.about) /\ Get(r.about) # <<>>
       THEN Some(get_text_strip(Get(r.about))) ELSE None
AboutMatches == IsSome(AboutText) /\ INTERESTING_PATTERNS_search(Get(AboutText))
ProfileExists ==
    IF cl_args[3] THEN get_github_profile_stats_api(cl_env.graphql)[1]
    ELSE cl_env.head = Some(200)
ProfileValid ==
    IF cl_args[3]
    THEN ProfileExists /\ get_github_profile_stats_api(cl_env.graphql)[2] >= cl_args[4]
    ELSE ProfileExists

StatusOf(result) == IF IsSome(result) THEN Get(result).status ELSE "nothing"

\* C4: when the user's record was fetched, process_user returns status YES
\* exactly when the about text matches the pattern, GITHUB_ONLY exactly when it
\* does not match (or is absent) and the profile is valid (exists, and in
\* authenticated mode has at least min_repo_count public repositories), and
\* nothing otherwise.
C4_StatusDecision ==
    (pc = "classified" /\ Fetched) =>
        /\ (StatusOf(cl_result) = "YES") = AboutMatches
        /\ (StatusOf(cl_result) = "GITHUB_ONLY") = (~AboutMatches /\ ProfileValid)
        /\ (cl_result = None) = (~AboutMatches /\ ~ProfileValid)

\* An authenticated call where the profile exists with fewer repositories than
\* the threshold and the about text does not match: nothing is returned.
C4_Witness ==
    /\ pc = "classified" /\ Fetched
    /\ cl_args[3] /\ ProfileExists /\ ~ProfileValid
    /\ IsSome(AboutText) /\ ~AboutMatches
    /\ cl_result = None

\* C5: a returned ContactInfo with status YES has an about text, and one with
\* status GITHUB_ONLY has no about text and has a github_repo.
C5_ContactInfoInvariant ==
    (pc = "classified" /\ IsSome(cl_result)) =>
        LET c == Get(cl_result)
        IN /\ c.status \in {"YES", "GITHUB_ONLY"}
           /\ c.status = "YES" => IsSome(c.about)
           /\ c.status = "GITHUB_ONLY" => (c.about = None /\ IsSome(c.github_repo))

\* A GITHUB_ONLY result for a user whose about field has text that does not
\* match.
C5_Witness ==
    /\ pc = "classified" /\ IsSome(cl_result)
    /\ Get(cl_result).status = "GITHUB_ONLY"
    /\ IsSome(AboutText) /\ Get(AboutText) # <<>>

\* C10: when the fetch of the user's record fails, or the user is unknown, and
\* the external profile is valid, process_user returns a ContactInfo with
\* status GITHUB_ONLY.
C10_FetchFailureIsAboutAbsent ==
    (pc = "classified" /\ ~Fetched /\ ProfileValid) =>
        StatusOf(cl_result) = "GITHUB_ONLY"

\* ------------------------------------------------------------------ ranking.py

\* build_ranked_user(uid, comments, contact_info), lines 12-31.
RECURSIVE sum_words(_)
sum_words(comments) ==
    IF comments = <<>> THEN 0
    ELSE split_len(Head(comments)[2]) + sum_words(Tail(comments))

build_ranked_user(uid, comments, contact_info) ==
    [uid |-> uid, contact |-> contact_info, comments |-> comments,
     comment_count |-> Len(comments), total_word_count |-> sum_words(comments)]

\* The key of line 42 and the order of Python's tuples.
sort_key(u) == <<u.comment_count, u.total_word_count>>
key_less(a, b) == a[1] < b[1] \/ (a[1] = b[1] /\ a[2] < b[2])

Reverse(xs) == [k \in 1..Len(xs) |-> xs[Len(xs) + 1 - k]]

\* A stable ascending sort: x goes behind every element whose key is not
\* greater than its own.
RECURSIVE insert_asc(_, _)
insert_asc(sorted, x) ==
    IF sorted = <<>> THEN <<x>>
    ELSE IF key_less(sort_key(x), sort_key(Head(sorted)))
    THEN <<x>> \o sorted
    ELSE <<Head(sorted)>> \o insert_asc(Tail(sorted), x)

RECURSIVE sorted_asc(_, _)
sorted_asc(xs, acc) ==
    IF xs = <<>> THEN acc ELSE sorted_asc(Tail(xs), insert_asc(acc, Head(xs)))

\* sorted(users, key=...)[::-1]: an ascending sort turned around.
sort_users_turned(users) == Reverse(sorted_asc(users, <<>>))

\* sort_users, lines 34-44: sorted(users, key=..., reverse=True).  With
\* reverse=True Python sorts the reversed list ascending and stably and reverses
\* the result.
sort_users(users) == Reverse(sorted_asc(Reverse(users), <<>>))

\* ------------------------------------------------------------------ inputs of sort_users

\* Longest list sorted, largest comment count and largest word count.
MaxUsers == 3
MaxCount == 2
MaxWords == 1

SortUid(k) == <<"w", Digits[k + 1]>>

IsInjective(f) == \A a, b \in DOMAIN f : f[a] = f[b] => a = b

\* ------------------------------------------------------------------ sort_users, called on its own

\* A list of RankedUser with distinct uids and any metrics.
InitSort ==
    /\ pc = "sort"
    /\ \E n \in 0..MaxUsers :
          \E order \in [1..n -> 1..MaxUsers] :
          \E cc \in [1..n -> 1..MaxCount] :
          \E wc \in [1..n -> 0..MaxWords] :
             /\ IsInjective(order)
             /\ unranked_users =
                   [k \in 1..n |->
                      [uid |-> SortUid(order[k]),
                       contact |-> [uid |-> SortUid(order[k]), status |-> "YES",
                                    about |-> Some(<<"p", "g", "p">>),
                                    github_repo |-> None],
                       comments |-> <<>>,
                       comment_count |-> cc[k],
                       total_word_count |-> wc[k]]]
    /\ final_ranked_list = <<>>
    /\ token_exist = FALSE
    /\ futures = <<>>
    /\ yielded = {}
    /\ filtered_users = <<>>
    /\ IdleParse
    /\ IdleClassify
    /\ IdleNormalize

\* ranking.sort_users(unranked_users).
SortUsers ==
    /\ pc = "sort"
    /\ final_ranked_list' = sort_users(unranked_users)
    /\ pc' = "sorted"
    /\ UNCHANGED <<unranked_users, token_exist, futures, yielded, filtered_users,
                   parseVars, classifyVars, normVars, html_content>>

NextSort == SortUsers

SpecSort == InitSort /\ [][NextSort]_vars

\* ------------------------------------------------------------------ claims about sort_users

PosOf(xs, uid) == CHOOSE k \in 1..Len(xs) : xs[k].uid = uid

SameKeys(a, b) ==
    a.comment_count = b.comment_count /\ a.total_word_count = b.total_word_count

\* C8: the sorted list is a permutation of the input, in descending order of
\* comment_count and, among equal comment counts, of total_word_count; two
\* users equal on both keep the order they had in the input.
C8_SortDescendingStable ==
    pc = "sorted" =>
        /\ Len(final_ranked_list) = Len(unranked_users)
        /\ \A k \in 1..Len(unranked_users) :
              \E l \in 1..Len(final_ranked_list) :
                  final_ranked_list[l] = unranked_users[k]
        /\ \A a, b \in 1..Len(final_ranked_list) :
              a < b =>
                 LET x == final_ranked_list[a]
                     y == final_ranked_list[b]
                 IN /\ x.comment_count >= y.comment_count
                    /\ x.comment_count = y.comment_count
                          => x.total_word_count >= y.total_word_count
                    /\ SameKeys(x, y)
                          => PosOf(unranked_users, x.uid) < PosOf(unranked_users, y.uid)

\* A sorted list of three users, two of them equal on both keys, that was
\* not in order before.
C8_Witness ==
    /\ pc = "sorted"
    /\ Len(unranked_users) = 3
    /\ final_ranked_list # unranked_users
    /\ \E a, b \in 1..3 :
          a < b /\ SameKeys(final_ranked_list[a], final_ranked_list[b])

\* ------------------------------------------------------------------ main.py: a run

\* max_workers with a token (line 131); 1 without.
MaxWorkersWithToken == 10
max_workers == IF token_exist THEN MaxWorkersWithToken ELSE 1

\* Threads of a run: well-formed comments, and one row whose indent is no
\* number.
MainRows ==
    {Row(Some(<<u>>), Some(b), Some(d)) :
        u \in Usernames, b \in {body_a, body_bc}, d \in {<<"0">>, <<"1">>}}
    \cup {Row(Some(<<<<"u">>>>), Some(body_blank), Some(<<"0">>)),
          Row(Some(<<<<"u">>>>), Some(body_a), Some(BadIndent))}

MainThreads == UNION {[1..n -> MainRows] : n \in 0..MaxRows}

\* The run after the thread id was extracted and the session made (line 98).
\* comment_trs holds the rows of the thread the site would serve.
InitMain ==
    /\ pc = "fetch"
    /\ comment_trs \in MainThreads
    /\ i = 1
    /\ comments_by_user = <<>>
    /\ token_exist \in BOOLEAN
    /\ futures = <<>>
    /\ yielded = {}
    /\ filtered_users = <<>>
    /\ unranked_users = <<>>
    /\ final_ranked_list = <<>>
    /\ IdleClassify
    /\ IdleNormalize

\* FetchThread without the test of line 102: the run goes on with None.
FetchThread_no_check ==
    /\ pc = "fetch"
    /\ \E response \in {"request_exception", "http_error", "ok"} :
          /\ html_content' = get_thread_html(response)
          /\ pc' = "confirm"
    /\ UNCHANGED <<parseVars, mainVars, classifyVars, normVars>>

\* Lines 101-106: get_thread_html returns the markup, or None and the run
\* exits with code 1.
FetchThread ==
    /\ pc = "fetch"
    /\ \E response \in {"request_exception", "http_error", "ok"} :
          /\ html_content' = get_thread_html(response)
          /\ pc' = IF IsSome(html_content') THEN "confirm" ELSE "fetch_failed"
    /\ UNCHANGED <<parseVars, mainVars, classifyVars, normVars>>

\* Lines 112-121: the user confirms the thread, declines or aborts.
ConfirmThread ==
    /\ pc = "confirm"
    /\ \E answer \in {"yes", "no", "abort"} :
          pc' = IF answer = "yes" THEN "parse" ELSE "cancelled"
    /\ UNCHANGED <<parseVars, mainVars, classifyVars, normVars, html_content>>

\* Lines 125-145: one task per uid of the index is submitted, in the order of
\* the index, with the arguments (uid, session, token_exist).
SubmitAll ==
    /\ pc = "parsed"
    /\ futures' = [k \in 1..Len(comments_by_user) |->
                     [uid |-> comments_by_user[k].uid,
                      args |-> <<comments_by_user[k].uid, "session", token_exist>>,
                      state |-> "pending",
                      outcome |-> [raised |-> FALSE, value |-> None]]]
    /\ pc' = "filter"
    /\ UNCHANGED <<parseVars, token_exist, yielded, filtered_users, unranked_users,
                   final_ranked_list, classifyVars, normVars, html_content>>

Running == {k \in 1..Len(futures) : futures[k].state = "running"}
AllDone == \A k \in 1..Len(futures) : futures[k].state = "done"

\* A worker of the pool takes the oldest pending task; at most max_workers run.
TaskStart(k) ==
    /\ pc \in {"filter", "unwinding"}
    /\ futures[k].state = "pending"
    /\ \A l \in 1..(k - 1) : futures[l].state # "pending"
    /\ Cardinality(Running) < max_workers
    /\ futures' = [futures EXCEPT ![k].state = "running"]
    /\ UNCHANGED <<pc, parseVars, token_exist, yielded, filtered_users, unranked_users,
                   final_ranked_list, classifyVars, normVars, html_content>>

\* The worker calls filter.process_user(*args); the future holds what the call
\* returned or raised.
TaskFinish(k) ==
    /\ pc \in {"filter", "unwinding"}
    /\ futures[k].state = "running"
    /\ \E env \in Envs :
          futures' = [futures EXCEPT ![k].state = "done",
                                     ![k].outcome = call_process_user(futures[k].args, env)]
    /\ UNCHANGED <<pc, parseVars, token_exist, yielded, filtered_users, unranked_users,
                   final_ranked_list, classifyVars, normVars, html_content>>

dict_set(dict, key, value) ==
    IF \E k \in 1..Len(dict) : dict[k].uid = key
    THEN [dict EXCEPT ![CHOOSE k \in 1..Len(dict) : dict[k].uid = key].contact = value]
    ELSE Append(dict, [uid |-> key, contact |-> value])

\* Lines 148-154: as_completed hands out a finished future; future.result()
\* returns the task's value or raises what the task raised, which leaves the
\* loop and the with block.
Collect(k) ==
    /\ pc = "filter"
    /\ futures[k].state = "done"
    /\ k \notin yielded
    /\ yielded' = yielded \cup {k}
    /\ IF futures[k].outcome.raised
       THEN /\ pc' = "unwinding"
            /\ UNCHANGED filtered_users
       ELSE /\ pc' = "filter"
            /\ filtered_users' =
                  IF IsSome(futures[k].outcome.value)
                  THEN dict_set(filtered_users, futures[k].uid,
                                Get(futures[k].outcome.value))
                  ELSE filtered_users
    /\ UNCHANGED <<parseVars, token_exist, futures, unranked_users, final_ranked_list,
                   classifyVars, normVars, html_content>>

\* The exception leaves "with ThreadPoolExecutor": shutdown(wait=True) waits
\* for every task, then the exception ends the run.
Unwind ==
    /\ pc = "unwinding"
    /\ AllDone
    /\ pc' = "crashed"
    /\ UNCHANGED <<parseVars, mainVars, classifyVars, normVars, html_content>>

\* Lines 164-174: the ranked users in the order of the index.
RECURSIVE build_unranked(_, _)
build_unranked(index, filtered) ==
    IF index = <<>> THEN <<>>
    ELSE IF \E k \in 1..Len(filtered) : filtered[k].uid = Head(index).uid
    THEN <<build_ranked_user(
               Head(index).uid, Head(index).comments,
               filtered[CHOOSE k \in 1..Len(filtered) :
                           filtered[k].uid = Head(index).uid].contact)>>
         \o build_unranked(Tail(index), filtered)
    ELSE build_unranked(Tail(index), filtered)

\* Lines 156-186: after the loop, exit when nobody is interesting; else build
\* the ranked users, sort them and write the results.
RankAndWrite ==
    /\ pc = "filter"
    /\ yielded = 1..Len(futures)
    /\ IF filtered_users = <<>>
       THEN /\ pc' = "no_interesting"
            /\ UNCHANGED <<unranked_users, final_ranked_list>>
       ELSE /\ unranked_users' = build_unranked(comments_by_user, filtered_users)
            /\ final_ranked_list' = sort_users(unranked_users')
            /\ pc' = "done"
    /\ UNCHANGED <<parseVars, token_exist, futures, yielded, filtered_users,
                   classifyVars, normVars, html_content>>

NextMain ==
    \/ FetchThread
    \/ ConfirmThread
    \/ ParseRow
    \/ ParseReturn
    \/ SubmitAll
    \/ \E k \in 1..Len(futures) : TaskStart(k)
    \/ \E k \in 1..Len(futures) : TaskFinish(k)
    \/ \E k \in 1..Len(futures) : Collect(k)
    \/ Unwind
    \/ RankAndWrite

Spec == InitMain /\ [][NextMain]_vars

\* ------------------------------------------------------------------ claims about a run

Raised(k) == futures[k].state = "done" /\ futures[k].outcome.raised
Interesting(k) ==
    futures[k].state = "done" /\ ~futures[k].outcome.raised
    /\ IsSome(futures[k].outcome.value)
Ended == pc \in {"crashed", "no_interesting", "done"}

\* C6: a classification that raised does not fail the run: the run neither
\* unwinds nor crashes because of it, and when the run has ended the
\* interesting set holds exactly the users whose classification returned a
\* ContactInfo, as if the failed one had returned nothing.
C6_ClassificationErrorIsolated ==
    (\E k \in 1..Len(futures) : Raised(k)) =>
        /\ pc \notin {"unwinding", "crashed"}
        /\ Ended =>
              \A k \in 1..Len(futures) :
                  Interesting(k) <=>
                      (\E l \in 1..Len(filtered_users) :
                          /\ filtered_users[l].uid = futures[k].uid
                          /\ filtered_users[l].contact = Get(futures[k].outcome.value))

\* The list the claim hands to the ranker: the users of the index, in its
\* order, whose classification returned a ContactInfo.
RECURSIVE ExpectedUnranked(_)
ExpectedUnranked(k) ==
    IF k > Len(comments_by_user) THEN <<>>
    ELSE IF Interesting(k)
    THEN <<build_ranked_user(comments_by_user[k].uid, comments_by_user[k].comments,
                             Get(futures[k].outcome.value))>>
         \o ExpectedUnranked(k + 1)
    ELSE ExpectedUnranked(k + 1)

\* C7: a run whose classifications were submitted ends, whatever the order
\* in which they completed, with the list handed to the ranker and the ranked
\* output determined by the results per uid alone, and ranking starts only
\* when every classification has finished.
C7_RankingIndependentOfCompletionOrder ==
    /\ (unranked_users # <<>> \/ final_ranked_list # <<>>) => AllDone
    /\ (futures # <<>> /\ Ended) =>
          /\ pc \in {"done", "no_interesting"}
          /\ ExpectedUnranked(1) # <<>> =>
                /\ unranked_users = ExpectedUnranked(1)
                /\ final_ranked_list = sort_users(ExpectedUnranked(1))

\* C9: a run that was confirmed and found commenters ends with the ranked
\* output, which holds every commenter classified interesting exactly once and
\* nobody else.
C9_RunReachesRankedOutput ==
    (futures # <<>> /\ Ended) =>
        /\ pc = "done"
        /\ \A k \in 1..Len(futures) :
              Cardinality({l \in 1..Len(final_ranked_list) :
                              final_ranked_list[l].uid = futures[k].uid})
                  = IF Interesting(k) THEN 1 ELSE 0
        /\ \A l \in 1..Len(final_ranked_list) :
              \E k \in 1..Len(futures) : futures[k].uid = final_ranked_list[l].uid

\* ------------------------------------------------------------------ _get_comment_text, called on its own

\* Longest body (number of children of the div) that is normalized.
MaxChildren == 3

\* Children of a body: <p>a</p>, <p> b<i>c</i></p>, <p></p>, the bare texts
\* "d", " " and "e ", and <i>i</i>.
BodyElements ==
    { P(<< <<"a">> >>),
      P(<< <<" ", "b">>, <<"c">> >>),
      P(<<>>),
      T(<<"d">>),
      T(<<" ">>),
      T(<<"e", " ">>),
      OtherTag(<< <<"i">> >>) }

InitNormalize ==
    /\ pc = "normalize"
    /\ div_children \in UNION {[1..n -> BodyElements] : n \in 0..MaxChildren}
    /\ normalized = <<>>
    /\ html_content = None
    /\ IdleParse
    /\ IdleMain
    /\ IdleClassify

\* _get_comment_text(comment_div).
Normalize ==
    /\ pc = "normalize"
    /\ normalized' = get_comment_text(div_children)
    /\ pc' = "normalized"
    /\ UNCHANGED <<div_children, html_content, parseVars, mainVars, classifyVars>>

NextNormalize == Normalize

SpecNormalize == InitNormalize /\ [][NextNormalize]_vars

\* ------------------------------------------------------------------ claims about the normalizer

Separator == <<"\n", "\n">>

\* The text of a block: of a paragraph its stripped text, of a bare segment
\* the segment trimmed, of any other tag nothing.
BlockText(e) ==
    IF e.kind = "p" THEN get_text_strip(e.strings)
    ELSE IF e.kind = "text" THEN strip(e.strings[1])
    ELSE <<>>

\* A block that puts something into the result: a paragraph, or a bare
\* segment that is not blank.
Emits(e) == e.kind = "p" \/ (e.kind = "text" /\ strip(e.strings[1]) # <<>>)

RECURSIVE Concat(_)
Concat(pieces) ==
    IF pieces = <<>> THEN <<>> ELSE Head(pieces) \o Concat(Tail(pieces))

\* The separator goes before a paragraph that follows any emitting block.
SeparatedBeforeParagraphs(body) ==
    [k \in 1..Len(body) |->
        (IF body[k].kind = "p" /\ \E j \in 1..(k - 1) : Emits(body[j])
         THEN Separator ELSE <<>>) \o BlockText(body[k])]

\* The separator goes only between two paragraphs that follow each other.
SeparatedBetweenParagraphs(body) ==
    [k \in 1..Len(body) |->
        (IF body[k].kind = "p" /\ k > 1 /\ body[k - 1].kind = "p"
         THEN Separator ELSE <<>>) \o BlockText(body[k])]

OnlyBlocks(body) == \A k \in 1..Len(body) : body[k].kind \in {"p", "text"}

\* C11 as stated: the result is the block texts in document order with the
\* separator only between consecutive paragraph blocks, never around a bare
\* text segment.
C11_SeparatorOnlyBetweenParagraphs ==
    (pc = "normalized" /\ OnlyBlocks(div_children)) =>
        normalized = strip(Concat(SeparatedBetweenParagraphs(div_children)))

\* C11 as amended: the result is the block texts in document order, trimmed,
\* with the separator before every paragraph block that follows a paragraph
\* block or a non-blank bare text segment, and never before a bare text
\* segment; two paragraphs A and B give A, separator, B; a body without
\* paragraphs whose segments are all blank gives "".
C11_SeparatorBeforeLaterParagraphs ==
    pc = "normalized" =>
        /\ normalized = strip(Concat(SeparatedBeforeParagraphs(div_children)))
        /\ (/\ Len(div_children) = 2
            /\ div_children[1].kind = "p" /\ div_children[2].kind = "p"
            /\ BlockText(div_children[1]) # <<>> /\ BlockText(div_children[2]) # <<>>)
              => normalized = BlockText(div_children[1]) \o Separator
                                \o BlockText(div_children[2])
        /\ (\A k \in 1..Len(div_children) : ~Emits(div_children[k]))
              => normalized = <<>>

\* A bare text followed by a paragraph: the separator stands between them.
C11_Witness ==
    /\ pc = "normalized"
    /\ Len(div_children) = 2
    /\ div_children[1].kind = "text" /\ div_children[2].kind = "p"
    /\ BlockText(div_children[1]) # <<>> /\ BlockText(div_children[2]) # <<>>
    /\ normalized = BlockText(div_children[1]) \o Separator \o BlockText(div_children[2])

\* C12: once the fetch of the thread has failed (a network error or a status
\* that is not 2xx), the run is at its exit with code 1 and nothing was
\* parsed, no classification was submitted, nothing was ranked or written.
C12_FetchFailureEndsRun ==
    (pc # "fetch" /\ html_content = None) =>
        /\ pc = "fetch_failed"
        /\ i = 1
        /\ comments_by_user = <<>>
        /\ futures = <<>>
        /\ yielded = {}
        /\ filtered_users = <<>>
        /\ unranked_users = <<>>
        /\ final_ranked_list = <<>>

\* The fetch of a thread that has comments failed.
C12_Witness ==
    /\ pc = "fetch_failed"
    /\ html_content = None
    /\ Len(comment_trs) > 0

\* ------------------------------------------------------------------ claims about the parser

\* What the claims call a comment's normalized text, depth and user.
RowText(r) == IF IsSome(r.body) THEN get_comment_text(Get(r.body)) ELSE <<>>
HasDepth(r) == IsSome(r.indent) /\ ~int(Get(r.indent)).raised
DepthOf(r) == int(Get(r.indent)).val
UserOf(r) == get_text_strip(Get(r.user))
Produces(r) == IsSome(r.user) /\ IsSome(r.body) /\ RowText(r) # <<>>

SetMax(S) == CHOOSE x \in S : \A y \in S : y <= x

\* The parent text the claim states for the row at position k: the text of
\* the nearest preceding row of depth exactly one less, "" when the row is a
\* root, has no depth, or no such row precedes it.
NearestParentText(trs, k) ==
    IF ~HasDepth(trs[k]) \/ DepthOf(trs[k]) <= 0 THEN <<>>
    ELSE LET cands == {j \in 1..(k - 1) :
                         HasDepth(trs[j]) /\ DepthOf(trs[j]) = DepthOf(trs[k]) - 1}
         IN IF cands = {} THEN <<>> ELSE RowText(trs[SetMax(cands)])

\* The positions, in thread order, of the first n rows that produce a pair for
\* user u.
PositionsOf(trs, n, u) ==
    SelectSeq([k \in 1..n |-> k],
              LAMBDA k : Produces(trs[k]) /\ UserOf(trs[k]) = u)

PairsOf(dict, u) == IF HasKey(dict, u) THEN Lookup(dict, u).comments ELSE <<>>

AllUsers == AllUids

C2_OnePairPerNonEmptyComment ==
    /\ \A k \in 1..Len(comments_by_user) :
          /\ comments_by_user[k].comments # <<>>
          /\ \A m \in 1..Len(comments_by_user[k].comments) :
                comments_by_user[k].comments[m][2] # <<>>
          /\ \A l \in 1..Len(comments_by_user) :
                comments_by_user[l].uid = comments_by_user[k].uid => l = k
    /\ \A u \in AllUsers :
          LET pos == PositionsOf(comment_trs, i - 1, u)
              got == PairsOf(comments_by_user, u)
          IN /\ Len(got) = Len(pos)
             /\ \A m \in 1..Len(got) : got[m][2] = RowText(comment_trs[pos[m]])

\* A finished parse of a thread where one user has two pairs around a row of
\* another user, and a row with an empty text was dropped.
C2_Witness ==
    /\ pc = "parsed"
    /\ Len(comment_trs) = 3
    /\ \E u \in AllUsers : Len(PairsOf(comments_by_user, u)) = 2
    /\ \E k \in 1..3 :
          /\ IsSome(comment_trs[k].user) /\ IsSome(comment_trs[k].body)
          /\ RowText(comment_trs[k]) = <<>>

\* The rows the claim calls malformed, and the thread without them.
Malformed(r) ==
    \/ ~IsSome(r.user)
    \/ ~IsSome(r.body)
    \/ (IsSome(r.indent) /\ int(Get(r.indent)).raised)

WithoutMalformed(trs) == SelectSeq(trs, LAMBDA r : ~Malformed(r))

ExpectedPairs(trs, u) ==
    LET pos == PositionsOf(trs, Len(trs), u)
    IN [m \in 1..Len(pos) |->
          <<NearestParentText(trs, pos[m]), RowText(trs[pos[m]])>>]

\* C3: the parse never aborts, and the index it returns is the index of the
\* thread with the malformed rows removed: a malformed row gives no pair and
\* no parent text, and every other comment still gives its pair.
C3_MalformedRowSkipped ==
    /\ pc # "crashed"
    /\ pc = "parsed" =>
          \A u \in AllUsers :
              PairsOf(comments_by_user, u)
                  = ExpectedPairs(WithoutMalformed(comment_trs), u)

\* ------------------------------------------------------------------ the forward pass with a stack (spec, design notes)

\* Pop until the top has depth current_depth - 1, or the stack is empty.
RECURSIVE stack_pop(_, _)
stack_pop(stack, current_depth) ==
    IF stack = <<>> \/ stack[Len(stack)].depth = current_depth - 1 THEN stack
    ELSE stack_pop(SubSeq(stack, 1, Len(stack) - 1), current_depth)

\* The stack of (depth, normalizedText) after the first k comments: each
\* comment pops for its depth and is pushed.
RECURSIVE stack_after(_, _)
stack_after(trs, k) ==
    IF k = 0 THEN <<>>
    ELSE Append(stack_pop(stack_after(trs, k - 1), DepthOf(trs[k])),
                [depth |-> DepthOf(trs[k]), text |-> RowText(trs[k])])

\* The parent text the forward pass gives the comment at position k.
stack_parent_text(trs, k) ==
    LET stack == stack_pop(stack_after(trs, k - 1), DepthOf(trs[k]))
    IN IF stack = <<>> THEN <<>> ELSE stack[Len(stack)].text

\* ------------------------------------------------------------------ claims about the forward pass

\* Every row is a comment with a body and a non-negative depth.
AllComments(trs) ==
    \A k \in 1..Len(trs) :
        IsSome(trs[k].body) /\ HasDepth(trs[k]) /\ DepthOf(trs[k]) >= 0

\* No comment is more than one level deeper than the comment before it.
NoDepthGap(trs) ==
    \A k \in 2..Len(trs) : DepthOf(trs[k]) <= DepthOf(trs[k - 1]) + 1

StackAgreesWithScan ==
    \A u \in AllUsers :
        LET pos == PositionsOf(comment_trs, i - 1, u)
            got == PairsOf(comments_by_user, u)
        IN /\ Len(got) = Len(pos)
           /\ \A m \in 1..Len(got) : got[m][1] = stack_parent_text(comment_trs, pos[m])

\* C13 as stated: for comments of any non-negative depths, gaps included, the
\* parent text the parser's backward scan gave every pair is the one the
\* forward pass with the stack gives.
C13_StackPassEqualsBackwardScan ==
    AllComments(comment_trs) => StackAgreesWithScan

\* C13 as amended: the same, for threads in which no comment is more than one
\* level deeper than the comment before it (returns to shallower depths
\* included).
C13_StackPassEqualsScanWithoutGaps ==
    (AllComments(comment_trs) /\ NoDepthGap(comment_trs)) => StackAgreesWithScan

\* A parsed thread of depths 0, 1, 1: for the third comment the pass pops the
\* second and finds the first, whose text the scan gave it too.
C13_Witness ==
    /\ pc = "parsed"
    /\ Len(comment_trs) = 3
    /\ AllComments(comment_trs) /\ NoDepthGap(comment_trs)
    /\ \A k \in 1..3 : Produces(comment_trs[k])
    /\ DepthOf(comment_trs[1]) = 0 /\ DepthOf(comment_trs[2]) = 1
    /\ DepthOf(comment_trs[3]) = 1
    /\ RowText(comment_trs[1]) # RowText(comment_trs[2])
    /\ stack_parent_text(comment_trs, 3) = RowText(comment_trs[1])
    /\ \E m \in 1..Len(PairsOf(comments_by_user, UserOf(comment_trs[3]))) :
          PairsOf(comments_by_user, UserOf(comment_trs[3]))[m][1]
              = RowText(comment_trs[1])

====
